---- MODULE Spec2Model ----
(***************************************************************************)
(* Model of the fetch/cache layer of stock-analysis/main.py:               *)
(*   _safe_ak_call               the fallback feed resolver                *)
(*   cache_data, clean_old_cache the hour/day bucketed cache               *)
(*   get_incremental_daily_data  the incremental daily-history store       *)
(* A dataset (pandas DataFrame) is a sequence of rows; a row is a record   *)
(* [date, val].  The empty DataFrame is the empty sequence.                *)
(***************************************************************************)
EXTENDS Integers, Sequences, FiniteSets, TLC

\* ---------------------------------------------------------------- bounds
MaxCands == 3
MaxDate == 1
MaxRows == 2
HoursPerDay == 2
MaxNow == 2
MaxDay == 2
MaxEtfs == 6
MaxWrites == 3
MaxDelta == 12

\* ------------------------------------------------------------- datasets
Dates == 0..MaxDate
\* The payload of a row: two values tell an older row from a newer one.
Vals == {0, 1}
Rows == [date : Dates, val : Vals]

EmptyDataFrame == <<>>

RECURSIVE SeqsUpTo(_, _)
SeqsUpTo(S, n) ==
    IF n = 0 THEN {<<>>}
    ELSE LET shorter == SeqsUpTo(S, n - 1)
         IN  shorter \cup {Append(s, x) : s \in {t \in shorter : Len(t) = n - 1}, x \in S}

\* The tables one provider call can answer with: any sequence of dates,
\* repeated or out of order, all rows carrying the payload of that answer.
Tables ==
    {[i \in 1..Len(ds) |-> [date |-> ds[i], val |-> v]] :
        ds \in SeqsUpTo(Dates, MaxRows), v \in Vals}

VARIABLES now, sak, cache, files, cd, produced, failed, inc,
          analyzer, pc, clk, score, chat, reports, srv,
          pool, wr, hm, flow, liq, ep

vars == <<now, sak, cache, files, cd, produced, failed, inc,
          analyzer, pc, clk, score, chat, reports, srv,
          pool, wr, hm, flow, liq, ep>>

\* The worker pool of the per-instrument analysis, the file write in progress,
\* the last heat-map, flow-normalisation and liquidity computation and the
\* last request served by the report endpoint.
extVars == <<pool, wr, hm, flow, liq, ep>>

\* The state of the analysis run, of the scoring and narrative calls and of
\* the report store: untouched by the fetch/cache operations called alone.
appVars == <<analyzer, pc, clk, score, chat, reports, srv>>

\* ------------------------------------------------------------ wall clock
\* datetime.now(): `now` counts hours; strftime("%Y%m%d") is the day part,
\* strftime("%Y%m%d%H") the day part followed by the hour of the day.
Day(t) == t \div HoursPerDay
Hour(t) == t % HoursPerDay

\* ============================================================ _safe_ak_call
\* What one candidate name does when looked up and called on the provider.
TableA == <<[date |-> 0, val |-> 0]>>
TableB == <<[date |-> 0, val |-> 1], [date |-> 1, val |-> 0]>>

Candidates ==
    {[kind |-> k, df |-> EmptyDataFrame] : k \in {"unregistered", "throws", "none"}}
    \cup {[kind |-> "df", df |-> t] : t \in {EmptyDataFrame, TableA, TableB}}

CandidateLists == SeqsUpTo(Candidates, MaxCands)

\* Faulty variant: the call is not wrapped in try/except
TryCandidateNoCatch(func) ==
    IF func.kind = "throws"
    THEN [returned |-> FALSE, df |-> EmptyDataFrame, raised |-> TRUE]
    ELSE IF func.kind = "df" /\ func.df # EmptyDataFrame
         THEN [returned |-> TRUE, df |-> func.df, raised |-> FALSE]
         ELSE [returned |-> FALSE, df |-> EmptyDataFrame, raised |-> FALSE]

\* Faulty variant: the result is returned without the `not df.empty` test
TryCandidateAnyFrame(func) ==
    IF func.kind = "throws"
    THEN [returned |-> FALSE, df |-> EmptyDataFrame, raised |-> FALSE]
    ELSE IF func.kind = "df"
         THEN [returned |-> TRUE, df |-> func.df, raised |-> FALSE]
         ELSE [returned |-> FALSE, df |-> EmptyDataFrame, raised |-> FALSE]

\* try: df = func(...); if df is not None and not df.empty: return df
\* except Exception: continue
TryCandidate(func) ==
    IF func.kind = "throws"
    THEN [returned |-> FALSE, df |-> EmptyDataFrame, raised |-> FALSE]
    ELSE IF func.kind = "df" /\ func.df # EmptyDataFrame
         THEN [returned |-> TRUE, df |-> func.df, raised |-> FALSE]
         ELSE [returned |-> FALSE, df |-> EmptyDataFrame, raised |-> FALSE]

\* The for loop over func_names, from position i on; `invoked` collects the
\* positions whose function was actually called.
RECURSIVE SafeAkLoop(_, _, _)
SafeAkLoop(func_names, i, invoked) ==
    IF i > Len(func_names)
    THEN [df |-> EmptyDataFrame, invoked |-> invoked, raised |-> FALSE]
    ELSE IF func_names[i].kind = "unregistered"
         THEN SafeAkLoop(func_names, i + 1, invoked)
         ELSE LET r == TryCandidate(func_names[i])
              IN  IF r.raised
                  THEN [df |-> EmptyDataFrame, invoked |-> invoked \cup {i}, raised |-> TRUE]
                  ELSE IF r.returned
                       THEN [df |-> r.df, invoked |-> invoked \cup {i}, raised |-> FALSE]
                       ELSE SafeAkLoop(func_names, i + 1, invoked \cup {i})

SafeAkResult(func_names) == SafeAkLoop(func_names, 1, {})

NoSak == [called |-> FALSE, func_names |-> <<>>, df |-> EmptyDataFrame,
          invoked |-> {}, raised |-> FALSE]

SafeAkCall(func_names) ==
    /\ sak' = [called |-> TRUE, func_names |-> func_names,
               df |-> SafeAkResult(func_names).df,
               invoked |-> SafeAkResult(func_names).invoked,
               raised |-> SafeAkResult(func_names).raised]
    /\ UNCHANGED <<now, cache, files, cd, produced, failed, inc>>
    /\ UNCHANGED appVars
    /\ UNCHANGED extVars

\* ================================================================ cache_data
\* A cache file is named {filename}_{params_str}_{time_str}.pkl; a base file
\* {base_filename}_base.pkl.  A file key keeps the three parts apart; the
\* bucket label is <<day, hour>> (10 digits), <<day>> (8 digits) or, for a
\* base file, empty.
Requests ==
    {[filename |-> "northbound_flow", params |-> "", frequency |-> "hourly"],
     [filename |-> "northbound_top", params |-> "", frequency |-> "daily"]}

TimeStr(frequency, t) ==
    IF frequency = "hourly" THEN <<Day(t), Hour(t)>> ELSE <<Day(t)>>

UniqueFilename(req, t) ==
    [filename |-> req.filename, params |-> req.params,
     label |-> TimeStr(req.frequency, t)]

Put(f, k, v) == (k :> v) @@ f

NoFiles == [k \in {} |-> EmptyDataFrame]

\* What the producer (data_func) of one call does.
Outcomes(tables) ==
    {[kind |-> "throws", df |-> EmptyDataFrame]} \cup {[kind |-> "df", df |-> t] : t \in tables}

CacheDatasets == {EmptyDataFrame, TableA}

\* Faulty variant: the in-process lookup and the file are not consulted
CacheDataNoLookup(filepath, outcome, mem, disk) ==
    IF outcome.kind = "throws"
    THEN [df |-> EmptyDataFrame, cache |-> mem, files |-> disk,
          invoked |-> TRUE, stored |-> FALSE, raised |-> FALSE]
    ELSE [df |-> outcome.df, cache |-> Put(mem, filepath, outcome.df),
          files |-> Put(disk, filepath, outcome.df),
          invoked |-> TRUE, stored |-> TRUE, raised |-> FALSE]

\* Faulty variant: the producer call is not wrapped in try/except
CacheDataNoCatch(filepath, outcome, mem, disk) ==
    IF filepath \in DOMAIN mem
    THEN [df |-> mem[filepath], cache |-> mem, files |-> disk,
          invoked |-> FALSE, stored |-> FALSE, raised |-> FALSE]
    ELSE IF filepath \in DOMAIN disk
    THEN [df |-> disk[filepath], cache |-> Put(mem, filepath, disk[filepath]),
          files |-> disk, invoked |-> FALSE, stored |-> FALSE, raised |-> FALSE]
    ELSE IF outcome.kind = "throws"
    THEN [df |-> EmptyDataFrame, cache |-> mem, files |-> disk,
          invoked |-> TRUE, stored |-> FALSE, raised |-> TRUE]
    ELSE [df |-> outcome.df, cache |-> Put(mem, filepath, outcome.df),
          files |-> Put(disk, filepath, outcome.df),
          invoked |-> TRUE, stored |-> TRUE, raised |-> FALSE]

\* The body of cache_data once filepath is computed: memory hit, file hit,
\* else the producer inside try/except.
CacheDataResult(filepath, outcome, mem, disk) ==
    IF filepath \in DOMAIN mem
    THEN [df |-> mem[filepath], cache |-> mem, files |-> disk,
          invoked |-> FALSE, stored |-> FALSE, raised |-> FALSE]
    ELSE IF filepath \in DOMAIN disk
    THEN [df |-> disk[filepath], cache |-> Put(mem, filepath, disk[filepath]),
          files |-> disk, invoked |-> FALSE, stored |-> FALSE, raised |-> FALSE]
    ELSE IF outcome.kind = "throws"
    THEN [df |-> EmptyDataFrame, cache |-> mem, files |-> disk,
          invoked |-> TRUE, stored |-> FALSE, raised |-> FALSE]
    ELSE [df |-> outcome.df, cache |-> Put(mem, filepath, outcome.df),
          files |-> Put(disk, filepath, outcome.df),
          invoked |-> TRUE, stored |-> TRUE, raised |-> FALSE]

NoKey == [filename |-> "", params |-> "", label |-> <<>>]

NoCd == [called |-> FALSE, filepath |-> NoKey, outcome |-> [kind |-> "df", df |-> EmptyDataFrame],
         df |-> EmptyDataFrame, invoked |-> FALSE, raised |-> FALSE,
         was_produced |-> FALSE, was_failed |-> FALSE, expected |-> EmptyDataFrame]

\* cache_data(filename, data_func, *args, frequency=..., **kwargs).
\* produced: the dataset the producer stored under each key (history);
\* failed: the keys under which a producer call raised (history).
CacheData(req, outcome) ==
    LET filepath == UniqueFilename(req, now)
        r == CacheDataResult(filepath, outcome, cache, files)
    IN  /\ cache' = r.cache
        /\ files' = r.files
        /\ produced' = IF r.stored THEN Put(produced, filepath, outcome.df) ELSE produced
        /\ failed' = IF r.invoked /\ outcome.kind = "throws"
                     THEN failed \cup {filepath} ELSE failed
        /\ cd' = [called |-> TRUE, filepath |-> filepath, outcome |-> outcome,
                  df |-> r.df, invoked |-> r.invoked, raised |-> r.raised,
                  was_produced |-> filepath \in DOMAIN produced,
                  was_failed |-> filepath \in failed,
                  expected |-> IF filepath \in DOMAIN produced
                               THEN produced[filepath] ELSE EmptyDataFrame]
        /\ UNCHANGED <<now, sak, inc>>
        /\ UNCHANGED appVars
        /\ UNCHANGED extVars

\* ----------------------------------------------------------- clean_old_cache
BaseFilenames == {"sh_index_base"}

IsBaseFile(k) == k.filename \in BaseFilenames

\* Faulty variant: only the hourly files are looked at
IsStaleHourlyOnly(k, t) ==
    /\ ~IsBaseFile(k)
    /\ Len(k.label) = 2 /\ k.label # <<Day(t), Hour(t)>>

\* "_base.pkl" in filename: kept.  A 10-digit label other than the current
\* hour label: removed.  An 8-digit label other than the current day label:
\* removed.
IsStale(k, t) ==
    /\ ~IsBaseFile(k)
    /\ \/ Len(k.label) = 2 /\ k.label # <<Day(t), Hour(t)>>
       \/ Len(k.label) = 1 /\ k.label # <<Day(t)>>

\* The files left in ../cache by the pass run at wall clock t.
Cleaned(disk, t) == [k \in {f \in DOMAIN disk : ~IsStale(f, t)} |-> disk[k]]

CleanOldCache ==
    /\ files' = Cleaned(files, now)
    /\ UNCHANGED <<now, sak, cache, cd, produced, failed, inc>>
    /\ UNCHANGED appVars
    /\ UNCHANGED extVars

\* The process ends and a new one starts: the module-level _cache = {} is
\* empty again, the files stay.
Restart ==
    /\ cache # NoFiles
    /\ cache' = NoFiles
    /\ UNCHANGED <<now, sak, files, cd, produced, failed, inc>>
    /\ UNCHANGED appVars
    /\ UNCHANGED extVars

\* Keys whose bucket label is still the label of hour t: the only keys a
\* call at t or later can compute, so the only history worth keeping.
Current(keys, t) ==
    {k \in keys : k.label = <<Day(t), Hour(t)>> \/ k.label = <<Day(t)>>}

\* The wall clock moves on by one hour.
Tick ==
    /\ now < MaxNow
    /\ now' = now + 1
    /\ produced' = [k \in Current(DOMAIN produced, now + 1) |-> produced[k]]
    /\ failed' = Current(failed, now + 1)
    /\ UNCHANGED <<sak, cache, files, cd, inc>>
    /\ UNCHANGED appVars
    /\ UNCHANGED extVars

\* The wall clock moves on by one day.
TickDay ==
    /\ Day(now) < MaxDay
    /\ now' = now + HoursPerDay
    /\ UNCHANGED <<sak, cache, files, cd, produced, failed, inc>>
    /\ UNCHANGED appVars
    /\ UNCHANGED extVars

\* ================================================ get_incremental_daily_data
BaseFilepath == [filename |-> "sh_index_base", params |-> "", label |-> <<>>]

DatesOf(df) == {df[i].date : i \in 1..Len(df)}

MaxOf(S) == CHOOSE m \in S : \A x \in S : x <= m

\* DataFrame.drop_duplicates(subset=[date_col_name], keep="last"): a row stays
\* iff no later row has its date; the rows kept stay in their order.
DropDuplicates(df) ==
    LET kept == {i \in 1..Len(df) : \A j \in (i + 1)..Len(df) : df[j].date # df[i].date}
        RECURSIVE Build(_)
        Build(i) == IF i > Len(df) THEN <<>>
                    ELSE IF i \in kept THEN <<df[i]>> \o Build(i + 1) ELSE Build(i + 1)
    IN  Build(1)

\* Faulty variant: concatenation without de-duplication
MergeConcatOnly(df_base, df_new) == df_base \o df_new

\* Faulty variant: the delta replaces the base
MergeDeltaOnly(df_base, df_new) == DropDuplicates(df_new)

\* pd.concat([df_base, df_new]).drop_duplicates(subset=[date_col_name], keep="last")
Merge(df_base, df_new) == DropDuplicates(df_base \o df_new)

\* Faulty variant: a failed delta fetch answers with an empty DataFrame and persists it
IncrementalLoseOnFailure(disk, outcome, t) ==
    IF BaseFilepath \in DOMAIN disk
    THEN LET df_base == disk[BaseFilepath] IN
         IF df_base = EmptyDataFrame
         THEN [df |-> EmptyDataFrame, files |-> disk, invoked |-> FALSE, raised |-> TRUE]
         ELSE IF MaxOf(DatesOf(df_base)) + 1 <= Day(t)
         THEN IF outcome.kind = "throws"
              THEN [df |-> EmptyDataFrame, files |-> Put(disk, BaseFilepath, EmptyDataFrame),
                    invoked |-> TRUE, raised |-> FALSE]
              ELSE IF outcome.df # EmptyDataFrame
              THEN [df |-> Merge(df_base, outcome.df),
                    files |-> Put(disk, BaseFilepath, Merge(df_base, outcome.df)),
                    invoked |-> TRUE, raised |-> FALSE]
              ELSE [df |-> df_base, files |-> disk, invoked |-> TRUE, raised |-> FALSE]
         ELSE [df |-> df_base, files |-> disk, invoked |-> FALSE, raised |-> FALSE]
    ELSE IF outcome.kind = "throws"
         THEN [df |-> EmptyDataFrame, files |-> disk, invoked |-> TRUE, raised |-> FALSE]
         ELSE [df |-> outcome.df, files |-> Put(disk, BaseFilepath, outcome.df),
               invoked |-> TRUE, raised |-> FALSE]

\* The body of get_incremental_daily_data at wall clock t.
\* Base file present: last_date = max of the date column (this raises, outside
\* any try, when the base table has no rows); start_date = last_date + 1 day;
\* if start_date <= today the delta is fetched inside try/except and, when not
\* empty, merged and persisted; in every other case df_base is returned.
\* Base file absent: the full history is fetched inside try/except and
\* persisted as returned.
IncrementalResult(disk, outcome, t) ==
    IF BaseFilepath \in DOMAIN disk
    THEN LET df_base == disk[BaseFilepath] IN
         IF df_base = EmptyDataFrame
         THEN [df |-> EmptyDataFrame, files |-> disk, invoked |-> FALSE, raised |-> TRUE]
         ELSE IF MaxOf(DatesOf(df_base)) + 1 <= Day(t)
         THEN IF outcome.kind = "throws"
              THEN [df |-> df_base, files |-> disk, invoked |-> TRUE, raised |-> FALSE]
              ELSE IF outcome.df # EmptyDataFrame
              THEN [df |-> Merge(df_base, outcome.df),
                    files |-> Put(disk, BaseFilepath, Merge(df_base, outcome.df)),
                    invoked |-> TRUE, raised |-> FALSE]
              ELSE [df |-> df_base, files |-> disk, invoked |-> TRUE, raised |-> FALSE]
         ELSE [df |-> df_base, files |-> disk, invoked |-> FALSE, raised |-> FALSE]
    ELSE IF outcome.kind = "throws"
         THEN [df |-> EmptyDataFrame, files |-> disk, invoked |-> TRUE, raised |-> FALSE]
         ELSE [df |-> outcome.df, files |-> Put(disk, BaseFilepath, outcome.df),
               invoked |-> TRUE, raised |-> FALSE]

NoInc == [called |-> FALSE, existed |-> FALSE, df_base |-> EmptyDataFrame,
          outcome |-> [kind |-> "df", df |-> EmptyDataFrame],
          df |-> EmptyDataFrame, invoked |-> FALSE, raised |-> FALSE]

\* get_incremental_daily_data("sh_index", data_func, "日期", ...); inc records
\* the call: the base before it, what the producer did, what was returned.
GetIncrementalDailyData(outcome) ==
    LET r == IncrementalResult(files, outcome, now)
    IN  /\ files' = r.files
        /\ inc' = [called |-> TRUE, existed |-> BaseFilepath \in DOMAIN files,
                   df_base |-> IF BaseFilepath \in DOMAIN files
                               THEN files[BaseFilepath] ELSE EmptyDataFrame,
                   outcome |-> outcome, df |-> r.df,
                   invoked |-> r.invoked, raised |-> r.raised]
        /\ UNCHANGED <<now, sak, cache, cd, produced, failed>>
        /\ UNCHANGED appVars
        /\ UNCHANGED extVars

\* ==================================================== AdvancedStockAnalyzer
\* Python's None / True / False of is_trading_day and None of run_mode are the
\* strings "None", "True", "False".
NoDict == [k \in {} |-> "empty"]

NoData == [k \in {} |-> EmptyDataFrame]

\* __init__: data = {}, analysis_result = {}, run_mode = None,
\* is_trading_day = None.
NewAnalyzer ==
    [data |-> NoData, analysis_result |-> NoDict,
     run_mode |-> "None", is_trading_day |-> "None"]

At(at) == [at |-> at, i |-> 0]

\* ------------------------------------------------------------ _is_trade_day
\* The trade calendar _get_trade_calendar yields: the call throws, or a table
\* that is empty or not, whose date column is named by `col` ("other": none of
\* the accepted names) and that lists today or not.
Calendars ==
    [kind : {"throws", "df"}, col : {"trade_date", "date", "other"},
     rows : {"empty", "without_today", "with_today"}]

DateColumns == {"trade_date", "date"}

IsTradeDay(cal) ==
    IF cal.kind = "throws" THEN "None"
    ELSE IF cal.rows = "empty" THEN "None"
    ELSE IF cal.col \notin DateColumns THEN "None"
    ELSE IF cal.rows = "with_today" THEN "True" ELSE "False"

Bool(b) == IF b THEN "True" ELSE "False"

\* trade_day if trade_day is not None else now.weekday() < 5
TradingDayOf(cal, weekday) ==
    IF IsTradeDay(cal) # "None" THEN IsTradeDay(cal) ELSE Bool(weekday < 5)

\* Faulty variant: the morning session is closed at 12 inclusive
RunModeOfLateNoon(is_trading_day, hour) ==
    IF is_trading_day = "True"
    THEN IF 9 <= hour /\ hour <= 12 THEN "LIVE_MORNING"
         ELSE IF 12 <= hour /\ hour < 13 THEN "MIDDAY_SUMMARY"
         ELSE IF 13 <= hour /\ hour < 15 THEN "LIVE_AFTERNOON"
         ELSE "POST_MARKET"
    ELSE "POST_MARKET"

\* The if/elif chain of run_analysis over now.hour.
RunModeOf(is_trading_day, hour) ==
    IF is_trading_day = "True"
    THEN IF 9 <= hour /\ hour < 12 THEN "LIVE_MORNING"
         ELSE IF 12 <= hour /\ hour < 13 THEN "MIDDAY_SUMMARY"
         ELSE IF 13 <= hour /\ hour < 15 THEN "LIVE_AFTERNOON"
         ELSE "POST_MARKET"
    ELSE "POST_MARKET"

Weekdays == 0..6
Hours == 0..23

NoClk == [read |-> FALSE, weekday |-> 0, hour |-> 0,
          cal |-> [kind |-> "throws", col |-> "other", rows |-> "empty"]]

\* run_analysis up to the print of the mode: now = datetime.now() is read
\* once, the trading-day flag and the run mode are assigned.
StartRun(weekday, hour, cal) ==
    /\ pc = At("new")
    /\ clk' = [read |-> TRUE, weekday |-> weekday, hour |-> hour, cal |-> cal]
    /\ analyzer' = [analyzer EXCEPT
            !.is_trading_day = TradingDayOf(cal, weekday),
            !.run_mode = RunModeOf(TradingDayOf(cal, weekday), hour)]
    /\ pc' = At("clean")
    /\ UNCHANGED <<now, sak, cache, files, cd, produced, failed, inc>>
    /\ UNCHANGED <<score, chat, reports, srv>>
    /\ UNCHANGED extVars

\* run_analysis: clean_old_cache()
CleanStep ==
    /\ pc = At("clean")
    /\ files' = Cleaned(files, now)
    /\ pc' = At("fetch")
    /\ UNCHANGED <<now, sak, cache, cd, produced, failed, inc>>
    /\ UNCHANGED <<analyzer, clk, score, chat, reports, srv>>
    /\ UNCHANGED extVars

\* ------------------------------------------------------------- fetch_data
\* The feeds of fetch_data kept here, in the order they are fetched: two
\* direct provider calls, one cache_data over a _safe_ak_call closure, one
\* get_incremental_daily_data and one cache_data over a provider function.
Feeds == {"market_fund_flow", "industry_fund_flow", "northbound_flow",
          "sh_index", "all_a_spot"}

ReqNorthboundFlow == [filename |-> "northbound_flow", params |-> "", frequency |-> "hourly"]

ReqAllASpot == [filename |-> "all_a_spot", params |-> "", frequency |-> "hourly"]

FeedOutcomes == Outcomes(CacheDatasets)

\* What every provider does during one fetch_data.
FetchInputs ==
    [market_fund_flow : FeedOutcomes, industry_fund_flow : FeedOutcomes,
     northbound_flow : SeqsUpTo(Candidates, 1), sh_index : FeedOutcomes,
     all_a_spot : FeedOutcomes]

AllFeedsAnswer ==
    [market_fund_flow |-> [kind |-> "df", df |-> TableA],
     industry_fund_flow |-> [kind |-> "df", df |-> TableA],
     northbound_flow |-> <<[kind |-> "df", df |-> TableA]>>,
     sh_index |-> [kind |-> "df", df |-> TableA],
     all_a_spot |-> [kind |-> "df", df |-> TableA]]

\* The body of fetch_data inside its try: a statement that raises ends the
\* body, `except Exception: return False`; what was assigned stays assigned.
FetchDataResult(outs, t, data, mem, disk) ==
    IF outs.market_fund_flow.kind = "throws"
    THEN [ok |-> FALSE, data |-> data, cache |-> mem, files |-> disk]
    ELSE
    LET d1 == Put(data, "market_fund_flow", outs.market_fund_flow.df) IN
    IF outs.industry_fund_flow.kind = "throws"
    THEN [ok |-> FALSE, data |-> d1, cache |-> mem, files |-> disk]
    ELSE
    LET d2 == Put(d1, "industry_fund_flow", outs.industry_fund_flow.df)
        nb == CacheDataResult(UniqueFilename(ReqNorthboundFlow, t),
                  [kind |-> "df", df |-> SafeAkResult(outs.northbound_flow).df],
                  mem, disk)
        d3 == Put(d2, "northbound_flow", nb.df)
        sh == IncrementalResult(nb.files, outs.sh_index, t)
    IN  IF sh.raised
        THEN [ok |-> FALSE, data |-> d3, cache |-> nb.cache, files |-> sh.files]
        ELSE
        LET d4 == Put(d3, "sh_index", sh.df)
            spot == CacheDataResult(UniqueFilename(ReqAllASpot, t),
                        outs.all_a_spot, nb.cache, sh.files)
        IN  [ok |-> TRUE, data |-> Put(d4, "all_a_spot", spot.df),
             cache |-> spot.cache, files |-> spot.files]

\* Faulty variant: the fetched datasets are put on a fresh analyzer state
WithDataResetMode(a, data) == [NewAnalyzer EXCEPT !.data = data]

\* self.data[...] = ...: only the data map of the analyzer changes.
WithData(a, data) == [a EXCEPT !.data = data]

\* run_analysis: `if self.fetch_data():`; on False the run ends there.
FetchData(outs) ==
    LET r == FetchDataResult(outs, now, analyzer.data, cache, files)
    IN  /\ pc = At("fetch")
        /\ analyzer' = WithData(analyzer, r.data)
        /\ cache' = r.cache
        /\ files' = r.files
        /\ pc' = IF r.ok THEN [at |-> "analyze", i |-> 1] ELSE At("skipped")
        /\ UNCHANGED <<now, sak, cd, produced, failed, inc>>
        /\ UNCHANGED <<clk, score, chat, reports, srv>>
        /\ UNCHANGED extVars

\* ---------------------------------------------------------------- analyzers
\* Faulty variant: the sentiment analyzer is called before the limit-up one
AnalyzerOrderSentimentFirst ==
    <<"liquidity", "turnover", "margin_trading", "northbound", "intermarket",
      "style", "sentiment", "limitup", "sector_heat_map", "market_stage">>

\* Faulty variant: run_analysis also calls analyze_etf_technical
AnalyzerOrderWithEtfTechnical ==
    <<"liquidity", "turnover", "margin_trading", "northbound", "intermarket",
      "style", "limitup", "sentiment", "sector_heat_map", "market_stage",
      "etf_technical">>

\* The analyzers in the order run_analysis calls them, by the key each one
\* writes into analysis_result.
AnalyzerOrder ==
    <<"liquidity", "turnover", "margin_trading", "northbound", "intermarket",
      "style", "limitup", "sentiment", "sector_heat_map", "market_stage">>

\* What the body of one analyzer does on the data it is given.
BodyOutcomes == {"ok", "throws"}

\* An analyzer whose body is wrapped in try/except: the except branch writes
\* the empty placeholder under the analyzer's key.
GuardedAnalyzer(key, body, a) ==
    [raised |-> FALSE,
     analysis_result |-> Put(a.analysis_result, key,
                             IF body = "throws" THEN "empty" ELSE "result")]

\* analyze_sector_strength: no try/except.  An absent or empty
\* industry_fund_flow writes an empty heat map and returns; otherwise the
\* body runs unprotected.
AnalyzeSectorStrength(body, a) ==
    IF \/ "industry_fund_flow" \notin DOMAIN a.data
       \/ a.data["industry_fund_flow"] = EmptyDataFrame
    THEN [raised |-> FALSE,
          analysis_result |-> Put(a.analysis_result, "sector_heat_map", "empty")]
    ELSE IF body = "throws"
    THEN [raised |-> TRUE, analysis_result |-> a.analysis_result]
    ELSE [raised |-> FALSE,
          analysis_result |-> Put(a.analysis_result, "sector_heat_map", "result")]

Analyze(key, body, a) ==
    IF key = "sector_heat_map" THEN AnalyzeSectorStrength(body, a)
    ELSE GuardedAnalyzer(key, body, a)

\* One analyzer call of run_analysis; an exception leaving the analyzer
\* leaves run_analysis.
AnalyzerStep(body) ==
    LET r == Analyze(AnalyzerOrder[pc.i], body, analyzer)
    IN  /\ pc.at = "analyze"
        /\ analyzer' = [analyzer EXCEPT !.analysis_result = r.analysis_result]
        /\ pc' = IF r.raised THEN At("raised")
                 ELSE IF pc.i < Len(AnalyzerOrder)
                      THEN [at |-> "analyze", i |-> pc.i + 1]
                      ELSE At("scoring")
        /\ UNCHANGED <<now, sak, cache, files, cd, produced, failed, inc>>
        /\ UNCHANGED <<clk, score, chat, reports, srv>>
        /\ UNCHANGED extVars

\* ------------------------------------------------------ comprehensive_scoring
\* A pandas/numpy float: NaN, or a number.  Scores are counted in thirtieths
\* (base 1.0 is 30, the clip bound 5 is 150), heat values in whole points, so
\* that (heat_value - 50) / 15 is the integer 2 * (heat_value - 50).
NaN == [nan |-> TRUE, v |-> 0]

Num(v) == [nan |-> FALSE, v |-> v]

Plus(a, b) == IF a.nan \/ b.nan THEN NaN ELSE Num(a.v + b.v)

\* np.clip(x, lo, hi): NaN stays NaN.
Clip(x, lo, hi) ==
    IF x.nan THEN NaN
    ELSE IF x.v < lo THEN Num(lo) ELSE IF x.v > hi THEN Num(hi) ELSE x

\* The base scores _analyze_single_etf hands out: 1.0, 2.0, 2.5, 3.0.
BaseScores == {30, 60, 75, 90}

\* The heat values a sector_heat_map row can carry: a percentile blend in
\* [0, 100], or NaN where the fund-flow rank of the row is NaN.
HeatValues == {Num(h) : h \in 0..100} \cup {NaN}

Sectors == {"sector_in_map", "sector_not_in_map"}

\* theme_to_heat.get(specific_sector, 50)
HeatOf(theme_to_heat, specific_sector) ==
    IF specific_sector \in DOMAIN theme_to_heat
    THEN theme_to_heat[specific_sector] ELSE Num(50)

\* heat_score = (heat_value - 50) / 15
HeatScore(heat_value) ==
    IF heat_value.nan THEN NaN ELSE Num(2 * (heat_value.v - 50))

\* score = base_score + heat_score; final_score = np.clip(score, 0, 5)
FinalScore(base_score, heat_value) ==
    Clip(Plus(Num(base_score), HeatScore(heat_value)), 0, 150)

NoScore == [called |-> FALSE, base_score |-> 0, in_map |-> FALSE,
            heat_value |-> Num(50), final_score |-> Num(0)]

\* comprehensive_scoring on an analyzer holding one etf_technical record and
\* a one-row heat map; score records the instrument and its final score.
ComprehensiveScoring(base_score, specific_sector, heat) ==
    LET theme_to_heat == [s \in {"sector_in_map"} |-> heat]
    IN  /\ score' = [called |-> TRUE, base_score |-> base_score,
                     in_map |-> specific_sector \in DOMAIN theme_to_heat,
                     heat_value |-> HeatOf(theme_to_heat, specific_sector),
                     final_score |-> FinalScore(base_score,
                                        HeatOf(theme_to_heat, specific_sector))]
        /\ UNCHANGED <<now, sak, cache, files, cd, produced, failed, inc>>
        /\ UNCHANGED <<analyzer, pc, clk, chat, reports, srv>>
        /\ UNCHANGED extVars

\* run_analysis: comprehensive_scoring().  analyze_etf_technical is not called
\* by run_analysis, so etf_technical is absent and the step returns at once.
ScoringStep ==
    /\ pc = At("scoring")
    /\ analyzer' =
        IF \/ "etf_technical" \notin DOMAIN analyzer.analysis_result
           \/ analyzer.analysis_result["etf_technical"] = "empty"
           \/ "sector_heat_map" \notin DOMAIN analyzer.analysis_result
           \/ analyzer.analysis_result["sector_heat_map"] = "empty"
        THEN analyzer
        ELSE [analyzer EXCEPT !.analysis_result = Put(@, "final_ranking", "result")]
    /\ pc' = At("conclusion")
    /\ UNCHANGED <<now, sak, cache, files, cd, produced, failed, inc>>
    /\ UNCHANGED <<clk, score, chat, reports, srv>>
    /\ UNCHANGED extVars

\* ================================================================ chat_volces
\* A credential as the caller or the environment supplies it: not set (None
\* or ""), whitespace only, a run of x (the placeholder), or a real value.
Credentials == {"unset", "blank", "placeholder", "real"}

\* The module-level defaults VOLCES_API_KEY and MODEL are real values.
VOLCES_API_KEY == "real"

MODEL == "real"

\* a or b or c
FirstTruthy(a, b, c) == IF a # "unset" THEN a ELSE IF b # "unset" THEN b ELSE c

\* not value, or a value made of x only; whitespace alone is neither.
IsPlaceholder(value) == value \in {"unset", "placeholder"}

\* What requests.post and the decoding of its answer do.
HttpOutcomes ==
    {"connection_error", "401", "403", "400", "500", "not_json",
     "no_choices", "empty_choices", "content"}

NotConfigured == "AI_CALL_NOT_CONFIGURED"

CallFailed == "AI_CALL_FAILED"

\* Faulty variant: the request and the decoding are not wrapped in try/except
ChatVolcesNoCatch(api_key, env_key, model, env_model, http) ==
    IF \/ IsPlaceholder(FirstTruthy(api_key, env_key, VOLCES_API_KEY))
       \/ IsPlaceholder(FirstTruthy(model, env_model, MODEL))
    THEN [text |-> NotConfigured, requested |-> FALSE, raised |-> FALSE]
    ELSE IF http \in {"401", "403", "400"}
    THEN [text |-> CallFailed, requested |-> TRUE, raised |-> FALSE]
    ELSE IF http = "content"
    THEN [text |-> "content", requested |-> TRUE, raised |-> FALSE]
    ELSE [text |-> "", requested |-> TRUE, raised |-> TRUE]

\* chat_volces: the sentinel for unusable credentials before any request;
\* 401/403/400 answered with a sentinel; raise_for_status, resp.json() and the
\* indexing of the answer inside try, every except branch a sentinel.
ChatVolces(api_key, env_key, model, env_model, http) ==
    IF \/ IsPlaceholder(FirstTruthy(api_key, env_key, VOLCES_API_KEY))
       \/ IsPlaceholder(FirstTruthy(model, env_model, MODEL))
    THEN [text |-> NotConfigured, requested |-> FALSE, raised |-> FALSE]
    ELSE IF http \in {"401", "403", "400"}
    THEN [text |-> CallFailed, requested |-> TRUE, raised |-> FALSE]
    ELSE IF http = "content"
    THEN [text |-> "content", requested |-> TRUE, raised |-> FALSE]
    ELSE [text |-> CallFailed, requested |-> TRUE, raised |-> FALSE]

NoChat == [called |-> FALSE, env_key |-> "unset", env_model |-> "unset",
           http |-> "content", text |-> "", requested |-> FALSE, raised |-> FALSE]

\* analyze_conclusion: "{}" when the chat module could not be imported; else
\* the prompt is built and chat_volces called inside try, the except branch
\* writing the module's own message.  chat records the call made.
AnalyzeConclusion(ai_available, prompt, env_key, env_model, http) ==
    LET r == ChatVolces("unset", env_key, "unset", env_model, http)
        calls == ai_available /\ prompt = "ok"
    IN  /\ pc = At("conclusion")
        /\ analyzer' = [analyzer EXCEPT !.analysis_result =
                Put(@, "conclusion_raw",
                    IF ~ai_available THEN "{}"
                    ELSE IF prompt = "throws" \/ r.raised THEN "AI_MODULE_EXCEPTION"
                    ELSE r.text)]
        /\ chat' = IF calls
                   THEN [called |-> TRUE, env_key |-> env_key, env_model |-> env_model,
                         http |-> http, text |-> r.text, requested |-> r.requested,
                         raised |-> r.raised]
                   ELSE chat
        /\ pc' = At("print")
        /\ UNCHANGED <<now, sak, cache, files, cd, produced, failed, inc>>
        /\ UNCHANGED <<clk, score, reports, srv>>
        /\ UNCHANGED extVars

\* run_analysis: print_report(), the last step.
PrintReport ==
    /\ pc = At("print")
    /\ pc' = At("done")
    /\ UNCHANGED <<now, sak, cache, files, cd, produced, failed, inc>>
    /\ UNCHANGED <<analyzer, clk, score, chat, reports, srv>>
    /\ UNCHANGED extVars

\* AdvancedStockAnalyzer() for the next run of the same process.
NewRun ==
    /\ pc.at \in {"done", "skipped", "raised"}
    /\ analyzer' = NewAnalyzer
    /\ pc' = At("new")
    /\ clk' = NoClk
    /\ UNCHANGED <<now, sak, cache, files, cd, produced, failed, inc>>
    /\ UNCHANGED <<score, chat, reports, srv>>
    /\ UNCHANGED extVars

\* ========================================================= backend/server.py
\* A JSON-serialisable Python scalar: t is its type ("int", "float", "str", or
\* "nan" for float('nan')), v its repr.
PyInt(v) == [t |-> "int", v |-> v]

PyFloat(v) == [t |-> "float", v |-> v]

PyStr(v) == [t |-> "str", v |-> v]

\* The number literals carrying a fraction part, which json.load reads back
\* as float; every other number literal is read back as int.
FractionLiterals == {"4077.72", "-0.2", "2.53", "-633.24", "576.26", "40.9", "90.3", "9.8"}

\* json.dump of a scalar: a string token, the NaN token, or a number token
\* spelt as the repr of the number.
JsonDumpValue(x) ==
    IF x.t = "str" THEN [tok |-> "string", lit |-> x.v]
    ELSE IF x.t = "nan" THEN [tok |-> "NaN", lit |-> "NaN"]
    ELSE [tok |-> "number", lit |-> x.v]

\* json.load of a token.
JsonLoadValue(j) ==
    IF j.tok = "string" THEN PyStr(j.lit)
    ELSE IF j.tok = "NaN" THEN [t |-> "nan", v |-> "NaN"]
    ELSE IF j.lit \in FractionLiterals THEN PyFloat(j.lit) ELSE PyInt(j.lit)

\* The nested members of a payload: sectors is an object of two arrays of
\* objects, scenarios an array of objects, aiAdvice an array of strings.
DumpObject(o) == [k \in DOMAIN o |-> JsonDumpValue(o[k])]

DumpArray(s) == [i \in 1..Len(s) |-> DumpObject(s[i])]

JsonDump(p) ==
    [k \in DOMAIN p |->
        IF k = "sectors"
        THEN [strong |-> DumpArray(p[k].strong), weak |-> DumpArray(p[k].weak)]
        ELSE IF k = "scenarios" THEN DumpArray(p[k])
        ELSE IF k = "aiAdvice" THEN [i \in 1..Len(p[k]) |-> JsonDumpValue(p[k][i])]
        ELSE JsonDumpValue(p[k])]

LoadObject(o) == [k \in DOMAIN o |-> JsonLoadValue(o[k])]

LoadArray(s) == [i \in 1..Len(s) |-> LoadObject(s[i])]

JsonLoad(text) ==
    [k \in DOMAIN text |->
        IF k = "sectors"
        THEN [strong |-> LoadArray(text[k].strong), weak |-> LoadArray(text[k].weak)]
        ELSE IF k = "scenarios" THEN LoadArray(text[k])
        ELSE IF k = "aiAdvice" THEN [i \in 1..Len(text[k]) |-> JsonLoadValue(text[k][i])]
        ELSE JsonLoadValue(text[k])]

Scenario(title, probability, type) ==
    [title |-> PyStr(title), probability |-> PyInt(probability), type |-> PyStr(type),
     description |-> PyStr("text")]

DefaultScenarios ==
    <<Scenario("base case", "60", "base"), Scenario("optimistic case", "25", "optimistic"),
      Scenario("pessimistic case", "15", "pessimistic")>>

DefaultAdvice == <<PyStr("advice 1"), PyStr("advice 2"), PyStr("advice 3")>>

\* record.get(key, default) on the record an analyzer wrote: {} when the
\* analyzer failed or did not run; the keys listed when it succeeded.
\* Faulty variant: the liquidity record also carries the index fields
LiquidityKeysWithIndex ==
    {"total_volume", "main_net_inflow", "retail_net_inflow", "sh_index_close", "sh_pct_chg"}

LiquidityKeys == {"total_volume", "main_net_inflow", "retail_net_inflow"}

Get(result, analyzer_key, keys, key, value, default) ==
    IF /\ analyzer_key \in DOMAIN result
       /\ result[analyzer_key] = "result"
       /\ key \in keys
    THEN value ELSE default

\* transform_analyzer_result(analyzer), called at wall clock t.
TransformAnalyzerResult(result, t) ==
    LET heat == /\ "sector_heat_map" \in DOMAIN result
                /\ result["sector_heat_map"] = "result"
    IN  [timestamp |-> PyStr(ToString(t)),
         index |-> Get(result, "liquidity", LiquidityKeys, "sh_index_close", PyStr("4077.72"), PyInt("0")),
         change |-> Get(result, "liquidity", LiquidityKeys, "sh_pct_chg", PyFloat("-0.2"), PyInt("0")),
         volumeEstimate |-> Get(result, "liquidity", LiquidityKeys, "total_volume", PyStr("3.45e8"), PyStr("0")),
         leverageRate |-> Get(result, "margin_trading", {"leverage_ratio"}, "leverage_ratio", PyStr("2.53%"), PyInt("0")),
         mainFlow |-> Get(result, "liquidity", LiquidityKeys, "main_net_inflow", PyStr("-633.24e8"), PyInt("0")),
         retailFlow |-> Get(result, "liquidity", LiquidityKeys, "retail_net_inflow", PyStr("576.26e8"), PyInt("0")),
         winRate |-> Get(result, "sentiment", {"profit_effect"}, "profit_effect", PyStr("40.9%"), PyInt("0")),
         sectors |-> [strong |-> IF heat THEN <<[name |-> PyStr("coal"), value |-> PyFloat("90.3")]>> ELSE <<>>,
                      weak |-> IF heat THEN <<[name |-> PyStr("brokers"), value |-> PyFloat("9.8")]>> ELSE <<>>],
         scenarios |-> DefaultScenarios,
         aiAdvice |-> DefaultAdvice]

\* The except branch of generate_report.
ErrorPayload(t) == [error |-> PyStr("analysis failed"), timestamp |-> PyStr(ToString(t))]

\* The sample payload written when main.py cannot be loaded.
MockPayload(t) ==
    [timestamp |-> PyStr(ToString(t)), index |-> PyFloat("4077.72"), change |-> PyFloat("-0.2"),
     volumeEstimate |-> PyStr("3.45"), leverageRate |-> PyFloat("2.53"),
     mainFlow |-> PyFloat("-633.24"), retailFlow |-> PyFloat("576.26"),
     winRate |-> PyFloat("40.9"),
     sectors |-> [strong |-> <<[name |-> PyStr("coal"), value |-> PyFloat("90.3")]>>,
                  weak |-> <<[name |-> PyStr("brokers"), value |-> PyFloat("9.8")]>>],
     scenarios |-> DefaultScenarios,
     aiAdvice |-> DefaultAdvice]

\* date_str as a caller passes it: None, or the day it names.
DateArgs == {[given |-> FALSE, day |-> 0]} \cup {[given |-> TRUE, day |-> d] : d \in {0, 1}}

\* date_str or date.today().strftime("%Y-%m-%d")
DateOf(date_str, t) == IF date_str.given THEN date_str.day ELSE Day(t)

NoPayload == [none |-> PyStr("")]

NoReports == [d \in {} |-> NoPayload]

\* Faulty variant: an existing report file is left as it is
WriteReportKeepFirst(store, day, payload) ==
    IF day \in DOMAIN store THEN store ELSE Put(store, day, JsonDump(payload))

\* open(filename, "w") and json.dump(payload, f): the file of the day is
\* created or replaced.
WriteReport(store, day, payload) == Put(store, day, JsonDump(payload))

\* srv: the last call served (op, phase, date, payload returned or read,
\* notfound) and, as history, the payload the last finished generate_report
\* returned for each day and the days whose file was replaced by another one.
NoSrv == [op |-> "none", phase |-> "idle", date |-> 0, notfound |-> FALSE,
          payload |-> NoPayload, returned |-> NoReports, replaced |-> {}]

Returned(day, payload) ==
    [srv EXCEPT !.op = "generate", !.phase = "returned", !.date = day,
                !.notfound = FALSE, !.payload = payload,
                !.returned = Put(@, day, payload),
                !.replaced = IF day \in DOMAIN reports /\ reports[day] # JsonDump(payload)
                             THEN @ \cup {day} ELSE @]

\* generate_report without a loadable analyzer: the sample payload is written
\* and returned.
GenerateMock(date_str) ==
    /\ srv.phase # "running"
    /\ reports' = WriteReport(reports, DateOf(date_str, now), MockPayload(now))
    /\ srv' = Returned(DateOf(date_str, now), MockPayload(now))
    /\ UNCHANGED <<now, sak, cache, files, cd, produced, failed, inc>>
    /\ UNCHANGED <<analyzer, pc, clk, score, chat>>
    /\ UNCHANGED extVars

\* generate_report up to analyzer = AdvancedStockAnalyzer(): the file name is
\* fixed, a fresh analyzer is about to run.
GenerateBegin(date_str) ==
    /\ srv.phase # "running"
    /\ srv' = [srv EXCEPT !.op = "generate", !.phase = "running",
                          !.date = DateOf(date_str, now), !.notfound = FALSE,
                          !.payload = NoPayload]
    /\ analyzer' = NewAnalyzer
    /\ pc' = At("new")
    /\ clk' = NoClk
    /\ UNCHANGED <<now, sak, cache, files, cd, produced, failed, inc>>
    /\ UNCHANGED <<score, chat, reports>>
    /\ UNCHANGED extVars

\* generate_report once run_analysis is over: the transformed result, or the
\* error payload when run_analysis raised, is written and returned.
GenerateEnd ==
    LET payload == IF pc.at = "raised" THEN ErrorPayload(now)
                   ELSE TransformAnalyzerResult(analyzer.analysis_result, now)
    IN  /\ srv.phase = "running"
        /\ pc.at \in {"done", "skipped", "raised"}
        /\ reports' = WriteReport(reports, srv.date, payload)
        /\ srv' = Returned(srv.date, payload)
        /\ UNCHANGED <<now, sak, cache, files, cd, produced, failed, inc>>
        /\ UNCHANGED <<analyzer, pc, clk, score, chat>>
        /\ UNCHANGED extVars

\* read_report(date_str): FileNotFoundError when the file of the day does not
\* exist, else json.load of it.
ReadReport(date_str) ==
    LET day == DateOf(date_str, now)
    IN  /\ srv.phase # "running"
        /\ srv' = [srv EXCEPT !.op = "read", !.phase = "returned", !.date = day,
                      !.notfound = day \notin DOMAIN reports,
                      !.payload = IF day \in DOMAIN reports
                                  THEN JsonLoad(reports[day]) ELSE NoPayload]
        /\ UNCHANGED <<now, sak, cache, files, cd, produced, failed, inc>>
        /\ UNCHANGED <<analyzer, pc, clk, score, chat, reports>>
        /\ UNCHANGED extVars

\* ======================================================= analyze_etf_technical
\* The instruments of etf_spot, by code.
Etfs == 1..MaxEtfs

\* ThreadPoolExecutor(max_workers=5)
max_workers == 5

\* The codes of a list of results.
Codes(results) == {results[i] : i \in 1..Len(results)}

\* [code for code in etf_spot if code not in analyzed_codes], in table order.
RECURSIVE EtfsToProcess(_, _)
EtfsToProcess(code, analyzed_codes) ==
    IF code > MaxEtfs THEN <<>>
    ELSE IF code \in analyzed_codes THEN EtfsToProcess(code + 1, analyzed_codes)
    ELSE <<code>> \o EtfsToProcess(code + 1, analyzed_codes)

\* pool.phase: "idle" before the call, "running" inside the executor block,
\* "done" after it, "crashed" when the process died inside it.
\* pool.status: what became of each submitted task: "queued", "running", or
\* finished with a result ("ok") or with None ("none"); "skipped" for an
\* instrument the progress file already held.
\* pool.futures: the submitted tasks in submission order; pool.next: the
\* position of the future the collecting loop is at.
\* pool.all_etf_analysis: the list in memory; pool.progress_file: the list in
\* the progress file of today, pool.exists telling whether the file is there.
NoPool ==
    [phase |-> "idle", status |-> [e \in Etfs |-> "skipped"], futures |-> <<>>,
     next |-> 1, all_etf_analysis |-> <<>>, progress_file |-> <<>>, exists |-> FALSE]

\* analyze_etf_technical up to the submission of the tasks: the progress file
\* is loaded, the instruments not in it are submitted.
PoolBegin ==
    LET loaded == IF pool.exists THEN pool.progress_file ELSE <<>>
        todo == EtfsToProcess(1, Codes(loaded))
    IN  /\ pool.phase \in {"idle", "crashed"}
        /\ pool' = [pool EXCEPT
                !.phase = IF todo = <<>> THEN "done" ELSE "running",
                !.status = [e \in Etfs |-> IF e \in Codes(todo) THEN "queued" ELSE "skipped"],
                !.futures = todo,
                !.next = 1,
                !.all_etf_analysis = loaded]
        /\ UNCHANGED <<now, sak, cache, files, cd, produced, failed, inc>>
        /\ UNCHANGED appVars
        /\ UNCHANGED <<wr, hm, flow, liq, ep>>

Running == {e \in Etfs : pool.status[e] = "running"}

\* A free worker thread takes the oldest queued task.
WorkerStart(e) ==
    /\ pool.phase = "running"
    /\ pool.status[e] = "queued"
    /\ \A d \in Etfs : d < e => pool.status[d] # "queued"
    /\ Cardinality(Running) < max_workers
    /\ pool' = [pool EXCEPT !.status[e] = "running"]
    /\ UNCHANGED <<now, sak, cache, files, cd, produced, failed, inc>>
    /\ UNCHANGED appVars
    /\ UNCHANGED <<wr, hm, flow, liq, ep>>

\* _analyze_single_etf returns in its worker: a result, or None.
WorkerFinish(e, result) ==
    /\ pool.phase = "running"
    /\ pool.status[e] = "running"
    /\ pool' = [pool EXCEPT !.status[e] = result]
    /\ UNCHANGED <<now, sak, cache, files, cd, produced, failed, inc>>
    /\ UNCHANGED appVars
    /\ UNCHANGED <<wr, hm, flow, liq, ep>>

\* result = future.result(); if result: append it and dump the whole list to
\* the progress file.
Collected(p, e) ==
    IF p.status[e] = "ok"
    THEN [p EXCEPT !.all_etf_analysis = Append(@, e),
                   !.progress_file = Append(p.all_etf_analysis, e),
                   !.exists = TRUE]
    ELSE p

\* One turn of `for future in futures`: future.result() returns once the task
\* at position next has finished; after the last future the block is left.
MainCollect ==
    LET e == pool.futures[pool.next]
    IN  /\ pool.phase = "running"
        /\ pool.next <= Len(pool.futures)
        /\ pool.status[e] \in {"ok", "none"}
        /\ pool' = [Collected(pool, e) EXCEPT
                !.next = pool.next + 1,
                !.phase = IF pool.next = Len(pool.futures) THEN "done" ELSE "running"]
        /\ UNCHANGED <<now, sak, cache, files, cd, produced, failed, inc>>
        /\ UNCHANGED appVars
        /\ UNCHANGED <<wr, hm, flow, liq, ep>>

\* The process dies inside the executor block: memory is gone, the progress
\* file stays.
PoolCrash ==
    /\ pool.phase = "running"
    /\ pool' = [pool EXCEPT !.phase = "crashed", !.all_etf_analysis = <<>>]
    /\ UNCHANGED <<now, sak, cache, files, cd, produced, failed, inc>>
    /\ UNCHANGED appVars
    /\ UNCHANGED <<wr, hm, flow, liq, ep>>

\* ================================================ open(path, "wb") + pickle.dump
\* The three places that write a pickle file, each with
\* `with open(path, "wb") as f: pickle.dump(obj, f)`: the bucketed entry of
\* cache_data, the base history of get_incremental_daily_data and the progress
\* file of analyze_etf_technical.
Sites == {"bucketed_entry", "base_history", "progress_checkpoint"}

\* A file on disk: absent, complete (pickle.load gives the object of write
\* number `version`) or partial (truncated by open or cut inside the dump;
\* pickle.load raises).
NoFile == [state |-> "absent", version |-> 0]

\* wr.store: the file of each site; wr.phase: "idle", "open" between open and
\* the end of the dump, "crashed" when the process died in between;
\* wr.site, wr.prior: the file being written and what it held before the open.
NoWr == [phase |-> "idle", site |-> "bucketed_entry", prior |-> NoFile,
         store |-> [s \in Sites |-> NoFile]]

\* open(path, "wb"): the file is created or truncated to length 0.
\* cache_data writes only a file that does not exist (an existing one is
\* loaded and returned before); the other two rewrite their file in place.
OpenWb(site) ==
    /\ wr.phase \in {"idle", "crashed"}
    /\ wr.store[site].version < MaxWrites
    /\ site = "bucketed_entry" => wr.store[site].state = "absent"
    /\ wr' = [wr EXCEPT !.phase = "open", !.site = site, !.prior = wr.store[site],
                        !.store[site] = [state |-> "partial",
                                         version |-> wr.store[site].version + 1]]
    /\ UNCHANGED <<now, sak, cache, files, cd, produced, failed, inc>>
    /\ UNCHANGED appVars
    /\ UNCHANGED <<pool, hm, flow, liq, ep>>

\* pickle.dump returns and the with block closes the file.
DumpAndClose ==
    /\ wr.phase = "open"
    /\ wr' = [wr EXCEPT !.phase = "idle", !.store[wr.site].state = "complete"]
    /\ UNCHANGED <<now, sak, cache, files, cd, produced, failed, inc>>
    /\ UNCHANGED appVars
    /\ UNCHANGED <<pool, hm, flow, liq, ep>>

\* The process dies between the open and the end of the dump.
CrashInWrite ==
    /\ wr.phase = "open"
    /\ wr' = [wr EXCEPT !.phase = "crashed"]
    /\ UNCHANGED <<now, sak, cache, files, cd, produced, failed, inc>>
    /\ UNCHANGED appVars
    /\ UNCHANGED <<pool, hm, flow, liq, ep>>

\* clean_old_cache removes the bucketed entry and the progress file of an
\* earlier bucket; the base history is never removed.
RemoveStale(site) ==
    /\ wr.phase \in {"idle", "crashed"}
    /\ site # "base_history"
    /\ wr.store[site].state # "absent"
    /\ wr' = [wr EXCEPT !.phase = "idle", !.store[site].state = "absent"]
    /\ UNCHANGED <<now, sak, cache, files, cd, produced, failed, inc>>
    /\ UNCHANGED appVars
    /\ UNCHANGED <<pool, hm, flow, liq, ep>>

\* ====================================================== analyze_sector_strength
\* The rows (sectors) of a non-empty industry_fund_flow table.
SectorRows == 1..3

\* An input table after pd.to_numeric(errors="coerce"): the count of rising
\* stocks of each sector (numeric after fillna(0)), and the fund-flow column,
\* absent or with NaN where the entry is not numeric.
SectorTables ==
    [has_fund : BOOLEAN, pop : [SectorRows -> 0..1],
     fund : [SectorRows -> {NaN, Num(0), Num(1)}]]

\* Series.rank(pct=True) * 100 of row i, in twelfths of a point: the average
\* rank among the non-NaN entries divided by their number; NaN for a NaN entry.
PctRank(col, i) ==
    IF col[i].nan THEN NaN
    ELSE LET valid == {j \in SectorRows : ~col[j].nan}
             less == Cardinality({j \in valid : col[j].v < col[i].v})
             equal == Cardinality({j \in valid : col[j].v = col[i].v})
         IN  Num((100 * 12 * (2 * less + equal + 1)) \div (2 * Cardinality(valid)))

\* 人气强度分
PopScore(table, i) == PctRank([j \in SectorRows |-> Num(table.pop[j])], i)

\* 资金强度分: the rank when the column is there and fund_net.notna().any(),
\* else 50.0 for every row.
FundScore(table, i) ==
    IF table.has_fund /\ (\E j \in SectorRows : ~table.fund[j].nan)
    THEN PctRank(table.fund, i)
    ELSE Num(50 * 12)

\* 热力值 = (0.7 * 人气强度分 + 0.3 * 资金强度分).round(2), in hundredths of a
\* point; NaN when a score is NaN.
HeatValue(table, i) ==
    LET p == PopScore(table, i)
        f == FundScore(table, i)
    IN  IF p.nan \/ f.nan THEN NaN
        ELSE Num(((7 * p.v + 3 * f.v) * 100 + 60) \div 120)

NoHeat ==
    [called |-> FALSE,
     table |-> [has_fund |-> FALSE, pop |-> [i \in SectorRows |-> 0],
                fund |-> [i \in SectorRows |-> NaN]],
     pop_score |-> [i \in SectorRows |-> Num(0)],
     fund_score |-> [i \in SectorRows |-> Num(0)],
     heat_value |-> [i \in SectorRows |-> Num(0)]]

\* analyze_sector_strength on a non-empty table; hm records the table and the
\* three columns computed for it.
SectorStrength(table) ==
    /\ hm' = [called |-> TRUE, table |-> table,
              pop_score |-> [i \in SectorRows |-> PopScore(table, i)],
              fund_score |-> [i \in SectorRows |-> FundScore(table, i)],
              heat_value |-> [i \in SectorRows |-> HeatValue(table, i)]]
    /\ UNCHANGED <<now, sak, cache, files, cd, produced, failed, inc>>
    /\ UNCHANGED appVars
    /\ UNCHANGED <<pool, wr, flow, liq, ep>>

\* ======================================================= _normalize_flow_value
Abs(x) == IF x < 0 THEN 0 - x ELSE x

\* The two literals of the unit test: 1e6 and 1e8.
FlowThreshold == 1000000

FlowDivisor == 100000000

\* The cell values handed in: None, NaN, a number, a string spelling a number
\* or a string that spells none.  The numbers lie around 0 and around the
\* threshold, on both sides of it and with both signs.
FlowNumbers ==
    (0 - MaxDelta)..MaxDelta
    \cup {FlowThreshold + d : d \in (0 - MaxDelta)..MaxDelta}
    \cup {0 - (FlowThreshold + d) : d \in (0 - MaxDelta)..MaxDelta}

FlowValues ==
    {[kind |-> k, v |-> 0] : k \in {"none", "nan", "text"}}
    \cup {[kind |-> k, v |-> v] : k \in {"number", "numeric_str"}, v \in FlowNumbers}

\* What a call gives: an exception (raised), or a float, NaN or the quotient
\* num / den.
FlowNaN == [nan |-> TRUE, num |-> 0, den |-> 1, raised |-> FALSE]

\* float(value); on TypeError/ValueError pd.to_numeric(value, errors="coerce").
ToFloat(value) ==
    IF value.kind \in {"number", "numeric_str"} THEN Num(value.v) ELSE NaN

\* Faulty variant: the threshold itself is converted too
NormalizeFlowValueInclusive(value) ==
    IF value.kind = "none" THEN FlowNaN
    ELSE IF ToFloat(value).nan THEN FlowNaN
    ELSE IF Abs(ToFloat(value).v) >= FlowThreshold
    THEN [nan |-> FALSE, num |-> ToFloat(value).v, den |-> FlowDivisor,
          raised |-> FALSE]
    ELSE [nan |-> FALSE, num |-> ToFloat(value).v, den |-> 1, raised |-> FALSE]

\* _normalize_flow_value(value)
NormalizeFlowValue(value) ==
    IF value.kind = "none" THEN FlowNaN
    ELSE IF ToFloat(value).nan THEN FlowNaN
    ELSE IF Abs(ToFloat(value).v) > FlowThreshold
    THEN [nan |-> FALSE, num |-> ToFloat(value).v, den |-> FlowDivisor,
          raised |-> FALSE]
    ELSE [nan |-> FALSE, num |-> ToFloat(value).v, den |-> 1, raised |-> FALSE]

NoFlow == [called |-> FALSE, value |-> [kind |-> "none", v |-> 0], out |-> FlowNaN]

NormalizeCall(value) ==
    /\ flow' = [called |-> TRUE, value |-> value, out |-> NormalizeFlowValue(value)]
    /\ UNCHANGED <<now, sak, cache, files, cd, produced, failed, inc>>
    /\ UNCHANGED appVars
    /\ UNCHANGED <<pool, wr, hm, liq, ep>>

\* ============================= _get_elapsed_trading_minutes, analyze_market_liquidity
\* now.time() as the minute of the day; the minutes looked at are every half
\* hour and the minutes at and next to 9:30, 11:30, 13:00 and 15:00.
Clock(h, m) == 60 * h + m

MinuteMarks ==
    {t \in 0..Clock(23, 59) : t % 30 = 0}
    \cup {Clock(9, 30) + d : d \in {-1, 1}} \cup {Clock(11, 30) + d : d \in {-1, 1}}
    \cup {Clock(13, 0) + d : d \in {-1, 1}} \cup {Clock(15, 0) + d : d \in {-1, 1}}
    \cup {Clock(23, 59)}

\* Faulty variant: the lunch break is counted like trading time
ElapsedNoLunchFreeze(is_trading_day, t) ==
    IF is_trading_day = "False" THEN 0
    ELSE IF t < Clock(9, 30) THEN 0
    ELSE IF t < Clock(13, 0) THEN t - Clock(9, 30)
    ELSE IF t <= Clock(15, 0) THEN 120 + (t - Clock(13, 0))
    ELSE 240

\* _get_elapsed_trading_minutes at minute t of the day.
ElapsedTradingMinutes(is_trading_day, t) ==
    IF is_trading_day = "False" THEN 0
    ELSE IF t < Clock(9, 30) THEN 0
    ELSE IF t <= Clock(11, 30) THEN t - Clock(9, 30)
    ELSE IF t < Clock(13, 0) THEN 120
    ELSE IF t <= Clock(15, 0) THEN 120 + (t - Clock(13, 0))
    ELSE 240

\* The analyzer states run_analysis can leave: on a non-trading day the mode
\* is POST_MARKET.
LiquidityModes ==
    {[is_trading_day |-> "True", run_mode |-> m] :
        m \in {"LIVE_MORNING", "MIDDAY_SUMMARY", "LIVE_AFTERNOON", "POST_MARKET"}}
    \cup {[is_trading_day |-> "False", run_mode |-> "POST_MARKET"]}

\* Turnovers in 亿元: the last row of the index history, and the sums of the
\* all_a_spot and index_spot tables (0: table absent, empty or summing to 0).
IndexHistoryTurnovers == {100, 120}

SpotTurnovers == {0, 80}

IndexSpotTurnovers == {0, 90}

\* total_turnover and turnover_source after the two live overrides.
TotalTurnover(run_mode, history_turnover, spot_turnover, idx_turnover) ==
    IF run_mode # "POST_MARKET" /\ spot_turnover > 0
    THEN [v |-> spot_turnover, source |-> "all_a_spot"]
    ELSE IF run_mode # "POST_MARKET" /\ idx_turnover > 0
    THEN [v |-> idx_turnover, source |-> "index_spot"]
    ELSE [v |-> history_turnover, source |-> "index_history"]

\* volume_analysis_turnover as the quotient num / den:
\* total_turnover * (240 / elapsed_minutes) when the mode is live and
\* elapsed_minutes > 0, else total_turnover.
VolumeAnalysisTurnover(run_mode, total_turnover, elapsed_minutes) ==
    IF run_mode # "POST_MARKET" /\ elapsed_minutes > 0
    THEN [num |-> total_turnover * 240, den |-> elapsed_minutes, estimated |-> TRUE]
    ELSE [num |-> total_turnover, den |-> 1, estimated |-> FALSE]

NoLiq ==
    [called |-> FALSE, is_trading_day |-> "False", run_mode |-> "POST_MARKET",
     minute |-> 0, elapsed_minutes |-> 0, history_turnover |-> 0,
     total_turnover |-> [v |-> 0, source |-> "index_history"],
     volume_analysis_turnover |-> [num |-> 0, den |-> 1, estimated |-> FALSE]]

\* analyze_market_liquidity at minute t of the day; liq records the inputs,
\* what _get_elapsed_trading_minutes gives at t and the turnover classified.
AnalyzeMarketLiquidity(mode, t, history_turnover, spot_turnover, idx_turnover) ==
    LET elapsed_minutes == ElapsedTradingMinutes(mode.is_trading_day, t)
        total == TotalTurnover(mode.run_mode, history_turnover, spot_turnover, idx_turnover)
    IN  /\ liq' = [called |-> TRUE, is_trading_day |-> mode.is_trading_day,
                   run_mode |-> mode.run_mode, minute |-> t,
                   history_turnover |-> history_turnover,
                   elapsed_minutes |-> elapsed_minutes,
                   total_turnover |-> total,
                   volume_analysis_turnover |->
                        VolumeAnalysisTurnover(mode.run_mode, total.v, elapsed_minutes)]
        /\ UNCHANGED <<now, sak, cache, files, cd, produced, failed, inc>>
        /\ UNCHANGED appVars
        /\ UNCHANGED <<pool, wr, hm, flow, ep>>

\* ================================================================= get_report
\* The date query parameter: omitted, a day written as YYYY-MM-DD, or a string
\* strptime rejects (day -1).
DateQueries == DateArgs \cup {[given |-> TRUE, day |-> -1]}

NoEp == [called |-> FALSE, given |-> FALSE, today |-> 0, existed |-> FALSE,
         status |-> "none", date |-> -1, data |-> NoPayload]

\* The body of get_report.  A date that is given and malformed is answered
\* with 400; FileNotFoundError of read_report is answered with 404.  The
\* response is built from `date or date.today()`, where date is the
\* parameter: with the parameter None, None.today() raises AttributeError
\* inside the try, which only catches FileNotFoundError.
GetReportResult(date, store, t) ==
    IF date.given /\ date.day = -1
    THEN [status |-> "400", date |-> -1, data |-> NoPayload]
    ELSE IF DateOf(date, t) \notin DOMAIN store
    THEN [status |-> "404", date |-> -1, data |-> NoPayload]
    ELSE IF date.given
    THEN [status |-> "200", date |-> date.day, data |-> JsonLoad(store[date.day])]
    ELSE [status |-> "unhandled", date |-> -1, data |-> NoPayload]

\* GET /report: ep records the request, whether the file of today existed
\* and the response.
GetReport(date) ==
    LET r == GetReportResult(date, reports, now)
    IN  /\ ep' = [called |-> TRUE, given |-> date.given, today |-> Day(now),
                  existed |-> Day(now) \in DOMAIN reports,
                  status |-> r.status, date |-> r.date, data |-> r.data]
        /\ UNCHANGED <<now, sak, cache, files, cd, produced, failed, inc>>
        /\ UNCHANGED appVars
        /\ UNCHANGED <<pool, wr, hm, flow, liq>>

\* ========================================================== specifications
Init ==
    /\ now = 0
    /\ sak = NoSak
    /\ cache = NoFiles
    /\ files = NoFiles
    /\ cd = NoCd
    /\ produced = NoFiles
    /\ failed = {}
    /\ inc = NoInc
    /\ analyzer = NewAnalyzer
    /\ pc = At("new")
    /\ clk = NoClk
    /\ score = NoScore
    /\ chat = NoChat
    /\ reports = NoReports
    /\ srv = NoSrv
    /\ pool = NoPool
    /\ wr = NoWr
    /\ hm = NoHeat
    /\ flow = NoFlow
    /\ liq = NoLiq
    /\ ep = NoEp

NextResolver == \E func_names \in CandidateLists : SafeAkCall(func_names)

NextCache ==
    \/ \E req \in Requests, outcome \in Outcomes(CacheDatasets) : CacheData(req, outcome)
    \/ CleanOldCache
    \/ Restart
    \/ Tick

NextHistory ==
    \/ \E outcome \in Outcomes(Tables) : GetIncrementalDailyData(outcome)
    \/ TickDay

\* The fetches that leave files behind, the clock and the eviction pass.
NextEvict ==
    \/ \E req \in Requests : CacheData(req, [kind |-> "df", df |-> TableA])
    \/ GetIncrementalDailyData([kind |-> "df", df |-> TableA])
    \/ CleanOldCache
    \/ Tick

\* The head of run_analysis under every clock and every calendar.
NextMode ==
    \E weekday \in Weekdays, hour \in Hours, cal \in Calendars :
        StartRun(weekday, hour, cal)

\* A Monday morning run with a calendar that lists today.
CalendarWithToday == [kind |-> "df", col |-> "trade_date", rows |-> "with_today"]

FetchScenarios ==
    {AllFeedsAnswer,
     [AllFeedsAnswer EXCEPT !.industry_fund_flow = [kind |-> "df", df |-> EmptyDataFrame]],
     [AllFeedsAnswer EXCEPT !.market_fund_flow = [kind |-> "throws", df |-> EmptyDataFrame]]}

\* One run of run_analysis, every analyzer body free to succeed or throw.
NextPipeline ==
    \/ \E hour \in {10, 20} : StartRun(0, hour, CalendarWithToday)
    \/ CleanStep
    \/ \E outs \in FetchScenarios : FetchData(outs)
    \/ \E body \in BodyOutcomes : AnalyzerStep(body)
    \/ ScoringStep
    \/ AnalyzeConclusion(TRUE, "ok", "real", "real", "content")
    \/ PrintReport

\* Runs of run_analysis in one process, every provider free to answer, answer
\* empty or throw; the analyzer bodies succeed.
NextFetch ==
    \/ StartRun(0, 10, CalendarWithToday)
    \/ CleanStep
    \/ \E outs \in FetchInputs : FetchData(outs)
    \/ AnalyzerStep("ok")
    \/ ScoringStep
    \/ AnalyzeConclusion(TRUE, "ok", "real", "real", "content")
    \/ PrintReport
    \/ NewRun

\* One run with every feed answering, every outcome of the narrative call.
NextChat ==
    \/ StartRun(0, 10, CalendarWithToday)
    \/ CleanStep
    \/ FetchData(AllFeedsAnswer)
    \/ AnalyzerStep("ok")
    \/ ScoringStep
    \/ \E ai_available \in BOOLEAN, prompt \in {"ok", "throws"},
          env_key \in Credentials, env_model \in Credentials, http \in HttpOutcomes :
            AnalyzeConclusion(ai_available, prompt, env_key, env_model, http)
    \/ PrintReport

\* comprehensive_scoring called on every instrument and heat map.
NextScoring ==
    \E base_score \in BaseScores, specific_sector \in Sectors, heat \in HeatValues :
        ComprehensiveScoring(base_score, specific_sector, heat)

\* The report store: generations with and without a loadable analyzer, the
\* runs they drive, and reads.
NextReport ==
    \/ \E date_str \in DateArgs : GenerateMock(date_str)
    \/ \E date_str \in DateArgs : GenerateBegin(date_str)
    \/ srv.phase = "running" /\ StartRun(0, 10, CalendarWithToday)
    \/ CleanStep
    \/ \E outs \in FetchScenarios : FetchData(outs)
    \/ \E body \in BodyOutcomes :
        /\ AnalyzerStep(body)
        /\ body = "throws" => AnalyzerOrder[pc.i] \in {"liquidity", "sector_heat_map"}
    \/ ScoringStep
    \/ AnalyzeConclusion(TRUE, "ok", "real", "real", "content")
    \/ PrintReport
    \/ GenerateEnd
    \/ \E date_str \in DateArgs : ReadReport(date_str)

\* The worker pool, its collecting loop and a crash at any point.
NextPool ==
    \/ PoolBegin
    \/ \E e \in Etfs : WorkerStart(e)
    \/ \E e \in Etfs, result \in {"ok", "none"} : WorkerFinish(e, result)
    \/ MainCollect
    \/ PoolCrash

\* Writes of the three files, each of which a crash can interrupt.
NextWrite ==
    \/ \E site \in Sites : OpenWb(site)
    \/ DumpAndClose
    \/ CrashInWrite
    \/ \E site \in Sites : RemoveStale(site)

\* analyze_sector_strength on every input table.
NextHeat == \E table \in SectorTables : SectorStrength(table)

\* _normalize_flow_value on every cell value.
NextFlow == \E value \in FlowValues : NormalizeCall(value)

\* analyze_market_liquidity in every mode at every minute looked at.
NextLiquidity ==
    \E mode \in LiquidityModes, t \in MinuteMarks, history_turnover \in IndexHistoryTurnovers,
       spot_turnover \in SpotTurnovers, idx_turnover \in IndexSpotTurnovers :
        AnalyzeMarketLiquidity(mode, t, history_turnover, spot_turnover, idx_turnover)

\* The endpoint against a store that generations fill as the clock moves on.
NextEndpoint ==
    \/ Tick
    \/ \E date_str \in DateArgs : GenerateMock(date_str)
    \/ \E date \in DateQueries : GetReport(date)

Next ==
    \/ NextEndpoint
    \/ NextLiquidity
    \/ NextFlow
    \/ NextHeat
    \/ NextWrite
    \/ NextPool
    \/ NextReport
    \/ NextResolver \/ NextCache \/ NextHistory \/ NextEvict \/ NextMode
    \/ NextPipeline \/ NextFetch \/ NextChat \/ NextScoring

SpecResolver == Init /\ [][NextResolver]_vars
SpecCache == Init /\ [][NextCache]_vars
SpecHistory == Init /\ [][NextHistory]_vars
SpecEvict == Init /\ [][NextEvict]_vars
SpecMode == Init /\ [][NextMode]_vars
SpecPipeline == Init /\ [][NextPipeline]_vars
SpecFetch == Init /\ [][NextFetch]_vars
SpecChat == Init /\ [][NextChat]_vars
SpecScoring == Init /\ [][NextScoring]_vars
SpecReport == Init /\ [][NextReport]_vars
SpecPool == Init /\ [][NextPool]_vars
SpecWrite == Init /\ [][NextWrite]_vars
SpecHeat == Init /\ [][NextHeat]_vars
SpecFlow == Init /\ [][NextFlow]_vars
SpecLiquidity == Init /\ [][NextLiquidity]_vars
SpecEndpoint == Init /\ [][NextEndpoint]_vars
Spec == Init /\ [][Next]_vars

\* ================================================================== claims
IsGood(func) == func.kind = "df" /\ func.df # EmptyDataFrame

\* Position of the first candidate that is registered, does not throw and
\* returns a non-empty dataset; 0 when there is none.
FirstGood(func_names) ==
    IF \E i \in 1..Len(func_names) : IsGood(func_names[i])
    THEN CHOOSE i \in 1..Len(func_names) :
            /\ IsGood(func_names[i])
            /\ \A j \in 1..(i - 1) : ~IsGood(func_names[j])
    ELSE 0

\* C1: _safe_ak_call returns the dataset of the first candidate, in list
\* order, that is registered, does not throw and is non-empty, and invokes no
\* candidate after it.
C1_FirstGoodCandidateReturned ==
    sak.called /\ FirstGood(sak.func_names) # 0 =>
        /\ sak.df = sak.func_names[FirstGood(sak.func_names)].df
        /\ FirstGood(sak.func_names) \in sak.invoked
        /\ \A i \in sak.invoked : i <= FirstGood(sak.func_names)

\* [A throws, B empty, C valid] has returned C's table.
C1_Witness ==
    /\ sak.called
    /\ Len(sak.func_names) = 3
    /\ sak.func_names[1].kind = "throws"
    /\ sak.func_names[2] = [kind |-> "df", df |-> EmptyDataFrame]
    /\ IsGood(sak.func_names[3])
    /\ sak.df = sak.func_names[3].df
    /\ sak.invoked = {1, 2, 3}

\* C2: _safe_ak_call never raises, and returns an empty dataset when every
\* candidate is unregistered, throws, or returns None or an empty dataset.
C2_ResolverNeverRaises ==
    sak.called =>
        /\ ~sak.raised
        /\ FirstGood(sak.func_names) = 0 => sak.df = EmptyDataFrame

\* A call whose three candidates all fail, one of them by throwing and one by
\* not being registered.
C2_Witness ==
    /\ sak.called
    /\ Len(sak.func_names) = 3
    /\ FirstGood(sak.func_names) = 0
    /\ \E i \in 1..3 : sak.func_names[i].kind = "throws"
    /\ \E i \in 1..3 : sak.func_names[i].kind = "unregistered"
    /\ sak.df = EmptyDataFrame

\* C3: once cache_data has stored a producer result under a key, a later call
\* with the same key (same bucket) returns that dataset and does not invoke
\* the producer.
C3_BucketedCacheHit ==
    cd.called /\ cd.was_produced => cd.df = cd.expected /\ ~cd.invoked

\* A call on a stored key whose producer would have answered differently,
\* served from the file after the in-process lookup was lost.
C3_Witness ==
    /\ cd.called
    /\ cd.was_produced
    /\ cd.outcome.df # cd.expected
    /\ cd.df = cd.expected
    /\ cd.filepath \in DOMAIN files

\* C4: when the producer raises during a miss, cache_data returns an empty
\* dataset and does not raise.
C4_ProducerFailureReturnsEmpty ==
    cd.called /\ cd.invoked /\ cd.outcome.kind = "throws" =>
        cd.df = EmptyDataFrame /\ ~cd.raised

\* A miss whose producer raised, in a bucket other than the first.
C4_Witness ==
    /\ cd.called
    /\ cd.invoked
    /\ cd.outcome.kind = "throws"
    /\ cd.df = EmptyDataFrame
    /\ now > 0

\* C5: a producer failure is cached as an empty result for its bucket: a
\* later call with the same key in the same bucket does not invoke the
\* producer again.
C5_FailureCachedForBucket ==
    cd.called /\ cd.was_failed => ~cd.invoked

UniqueDates(df) ==
    \A i, j \in 1..Len(df) : df[i].date = df[j].date => i = j

Ascending(df) ==
    \A i, j \in 1..Len(df) : i < j => df[i].date <= df[j].date

\* The last row of df with date d.
LastRowOf(df, d) ==
    df[CHOOSE i \in 1..Len(df) :
            df[i].date = d /\ \A j \in (i + 1)..Len(df) : df[j].date # d]

\* The last call found a base, fetched a non-empty delta and merged it.
Merged ==
    /\ inc.called
    /\ inc.existed
    /\ inc.invoked
    /\ inc.outcome.kind = "df"
    /\ inc.outcome.df # EmptyDataFrame

\* C6: the persisted base table has at most one row per date, and for a date
\* present both in the previous base and in a fetched delta the row kept is
\* the delta's.
C6_UniqueDatesNewestWins ==
    /\ BaseFilepath \in DOMAIN files => UniqueDates(files[BaseFilepath])
    /\ Merged =>
        \A d \in DatesOf(inc.df_base) \cap DatesOf(inc.outcome.df) :
            /\ d \in DatesOf(files[BaseFilepath])
            /\ LastRowOf(files[BaseFilepath], d) = LastRowOf(inc.outcome.df, d)

\* C7: the rows of the persisted base table and of the table returned to the
\* caller are in ascending date order, whatever rows the fetch returns.
C7_RowsAscendingByDate ==
    /\ BaseFilepath \in DOMAIN files => Ascending(files[BaseFilepath])
    /\ inc.called /\ ~inc.raised => Ascending(inc.df)

\* C8: if the delta fetch raises, get_incremental_daily_data returns the
\* existing base table unmodified and leaves the persisted base unchanged.
C8_FailedDeltaKeepsBase ==
    inc.called /\ inc.existed /\ inc.invoked /\ inc.outcome.kind = "throws" =>
        /\ ~inc.raised
        /\ inc.df = inc.df_base
        /\ BaseFilepath \in DOMAIN files
        /\ files[BaseFilepath] = inc.df_base

\* A failed delta fetch over a base of at least two rows.
C8_Witness ==
    /\ inc.called
    /\ inc.existed
    /\ inc.invoked
    /\ inc.outcome.kind = "throws"
    /\ Len(inc.df_base) >= 2
    /\ inc.df = inc.df_base

\* C9: the incremental history is never truncated: every date present in the
\* persisted base stays present across every step.
C9_StoredDatesOnlyGrow ==
    [][(BaseFilepath \in DOMAIN files) =>
        ((BaseFilepath \in DOMAIN files') /\
         (DatesOf(files[BaseFilepath]) \subseteq DatesOf(files'[BaseFilepath])))]_vars

\* A merge whose delta rewrites one date of the base and leaves out another.
C9_Witness ==
    /\ Merged
    /\ DatesOf(inc.df_base) \cap DatesOf(inc.outcome.df) # {}
    /\ DatesOf(inc.df_base) \ DatesOf(inc.outcome.df) # {}
    /\ files[BaseFilepath] # inc.df_base
    /\ DatesOf(inc.df_base) \subseteq DatesOf(files[BaseFilepath])

\* C10: the merge is idempotent: merging the delta again into the merged
\* table yields the merged table, rows and order.
C10_MergeIdempotent ==
    Merged =>
        /\ files[BaseFilepath] = inc.df
        /\ Merge(inc.df, inc.outcome.df) = inc.df

\* A merge whose delta replaced a row of the base and itself held two rows.
C10_Witness ==
    /\ Merged
    /\ Len(inc.outcome.df) >= 2
    /\ \E d \in DatesOf(inc.df_base) \cap DatesOf(inc.outcome.df) :
            LastRowOf(inc.df_base, d) # LastRowOf(inc.outcome.df, d)
    /\ inc.df # inc.df_base \o inc.outcome.df

\* The two labels a file of the current bucket can carry at wall clock t.
CurrentLabels(t) == {TimeStr("hourly", t), TimeStr("daily", t)}

\* C11: a pass of clean_old_cache removes every bucketed file whose hourly or
\* daily label is not the label of the current hour or day, keeps every file
\* of the current bucket and keeps every _base file, contents untouched.
C11_EvictionPass ==
    [][CleanOldCache =>
        (\A k \in DOMAIN files :
            ((IsBaseFile(k) \/ k.label \in CurrentLabels(now))
                => (k \in DOMAIN files' /\ files'[k] = files[k]))
            /\ ((~IsBaseFile(k) /\ k.label \notin CurrentLabels(now))
                => k \notin DOMAIN files'))]_vars

\* A pass has removed a stale file (the process still holds its dataset) and
\* left the base file and a file of the current bucket in place.
C11_Witness ==
    /\ BaseFilepath \in DOMAIN files
    /\ \E k \in DOMAIN files : ~IsBaseFile(k) /\ k.label \in CurrentLabels(now)
    /\ \E k \in DOMAIN cache :
        /\ k \notin DOMAIN files
        /\ Len(k.label) = 1
        /\ k.label \notin CurrentLabels(now)

\* The calendar read at the head of the run says whether today trades.
CalendarUsable ==
    clk.cal.kind = "df" /\ clk.cal.rows # "empty" /\ clk.cal.col \in DateColumns

TradingToday ==
    IF CalendarUsable THEN clk.cal.rows = "with_today" ELSE clk.weekday \in 0..4

\* C12: once run_analysis has read the clock, the trading-day flag is the
\* calendar's answer, or Monday..Friday when the calendar is unavailable; a
\* non-trading day gives POST_MARKET at every hour, a trading day gives
\* LIVE_MORNING in [9,12), MIDDAY_SUMMARY in [12,13), LIVE_AFTERNOON in [13,15)
\* and POST_MARKET at every other hour.
C12_RunModeFromDayAndHour ==
    clk.read =>
        /\ analyzer.is_trading_day = Bool(TradingToday)
        /\ ~TradingToday => analyzer.run_mode = "POST_MARKET"
        /\ (TradingToday /\ clk.hour \in 9..11) => analyzer.run_mode = "LIVE_MORNING"
        /\ (TradingToday /\ clk.hour = 12) => analyzer.run_mode = "MIDDAY_SUMMARY"
        /\ (TradingToday /\ clk.hour \in 13..14) => analyzer.run_mode = "LIVE_AFTERNOON"
        /\ (TradingToday /\ clk.hour \notin 9..14) => analyzer.run_mode = "POST_MARKET"

\* A run at noon on a Saturday the calendar lists as a trading day.
C12_Witness ==
    /\ clk.read
    /\ CalendarUsable
    /\ clk.cal.rows = "with_today"
    /\ clk.weekday = 5
    /\ clk.hour = 12
    /\ analyzer.run_mode = "MIDDAY_SUMMARY"

RunModes == {"LIVE_MORNING", "MIDDAY_SUMMARY", "LIVE_AFTERNOON", "POST_MARKET"}

\* C13: the run mode is assigned by the first step of run_analysis, before
\* the cache cleanup, the fetch and every analyzer, and no later step (cleanup,
\* fetch, analyzers, scoring, narrative call, rendering) changes it.
C13_RunModeAssignedOnce ==
    [][((pc.at = "new") =>
            (analyzer.run_mode = "None" /\ analyzer'.run_mode \in RunModes
             /\ pc'.at = "clean"))
       /\ ((pc.at # "new") => (analyzer'.run_mode = analyzer.run_mode))]_vars

\* A run that went through every step and still carries the mode of its start.
C13_Witness ==
    /\ pc.at = "done"
    /\ clk.hour = 10
    /\ analyzer.run_mode = "LIVE_MORNING"
    /\ "conclusion_raw" \in DOMAIN analyzer.analysis_result

\* C14: every instrument scored by comprehensive_scoring gets
\* clip(base_score + (heat_value - 50)/15, 0, 5), a score in [0, 5], whatever
\* the base score and the heat value of its sector (heat 50 when the sector is
\* not in the heat map).
C14_FinalScoreClipped ==
    score.called =>
        /\ ~score.final_score.nan
        /\ score.final_score.v \in 0..150
        /\ ~score.in_map => score.final_score.v = score.base_score
        /\ ~score.heat_value.nan =>
            LET raw == score.base_score + 2 * (score.heat_value.v - 50)
            IN  score.final_score.v = IF raw < 0 THEN 0 ELSE IF raw > 150 THEN 150 ELSE raw

\* C15: an exception inside an analyzer's body never leaves run_analysis: it
\* is caught at the analyzer, which writes the empty placeholder under its own
\* key, and the run goes on with the next step.
C15_AnalyzersIsolated ==
    /\ pc.at # "raised"
    /\ \A i \in 1..Len(AnalyzerOrder) :
        (pc.at = "analyze" /\ pc.i > i) =>
            AnalyzerOrder[i] \in DOMAIN analyzer.analysis_result

AnalyzerKeys == {AnalyzerOrder[i] : i \in 1..Len(AnalyzerOrder)}

RunEnded == pc.at \in {"done", "skipped", "raised"}

\* C16: when run_analysis has ended, analysis_result holds the key of every
\* analyzer, each with a result or the empty placeholder.
C16_AllAnalyzerKeysPresent ==
    RunEnded =>
        \A k \in AnalyzerKeys :
            /\ k \in DOMAIN analyzer.analysis_result
            /\ analyzer.analysis_result[k] \in {"result", "empty"}

\* C18: a feed that throws or answers empty during fetch_data degrades to an
\* empty dataset: every feed has its entry in data once the fetch is over,
\* fetch_data reports success and the analyzers run.
C18_FeedFailureContained ==
    (pc.at \notin {"new", "clean", "fetch"}) =>
        /\ pc.at # "skipped"
        /\ Feeds \subseteq DOMAIN analyzer.data

\* The credentials chat_volces ends up using for the recorded call.
KeyInUse == IF chat.env_key # "unset" THEN chat.env_key ELSE VOLCES_API_KEY

ModelInUse == IF chat.env_model # "unset" THEN chat.env_model ELSE MODEL

CredentialsMissing ==
    KeyInUse \in {"unset", "placeholder"} \/ ModelInUse \in {"unset", "placeholder"}

ContractFields ==
    {"timestamp", "index", "change", "volumeEstimate", "leverageRate", "mainFlow",
     "retailFlow", "winRate", "sectors", "scenarios", "aiAdvice"}

ScenarioFields == {"title", "probability", "type", "description"}

Complete(p) ==
    /\ ContractFields \subseteq DOMAIN p
    /\ DOMAIN p.sectors = {"strong", "weak"}
    /\ Len(p.scenarios) = 3
    /\ \A i \in 1..Len(p.scenarios) : DOMAIN p.scenarios[i] = ScenarioFields

\* C17: every report generate_report persists and returns carries all the
\* contract fields (timestamp, index, change, volume estimate, leverage rate,
\* main and retail flow, win rate, strong and weak sector lists, 3 scenarios
\* with title/probability/type/description, advice list), whichever feeds and
\* analyzers fail.
C17_ReportsComplete ==
    /\ \A day \in DOMAIN reports : Complete(JsonLoad(reports[day]))
    /\ (srv.op = "generate" /\ srv.phase = "returned") => Complete(srv.payload)

\* C20: read_report(D) signals NotFound exactly when there is no file for D;
\* for a day generate_report has returned a payload for, it returns the
\* payload of the last generation that finished, and the file of the day
\* holds exactly that payload (one report per day, the latest wins).
C20_ReadReturnsLatest ==
    /\ DOMAIN reports = DOMAIN srv.returned
    /\ \A day \in DOMAIN reports : JsonLoad(reports[day]) = srv.returned[day]
    /\ (srv.op = "generate" /\ srv.phase = "returned") =>
            srv.returned[srv.date] = srv.payload
    /\ srv.op = "read" =>
        /\ srv.notfound <=> srv.date \notin DOMAIN reports
        /\ srv.date \in DOMAIN srv.returned =>
            (~srv.notfound /\ srv.payload = srv.returned[srv.date])

\* A read of a day whose report was generated twice with different payloads,
\* while the other day has no report.
C20_Witness ==
    /\ srv.op = "read"
    /\ srv.date \in srv.replaced
    /\ ~srv.notfound
    /\ srv.payload = srv.returned[srv.date]
    /\ \E day \in {0, 1} : day \notin DOMAIN reports

\* The collecting loop has nothing finished to record: it is blocked on a
\* task that has not finished, or the process died at such a point.
Finished == {e \in Etfs : pool.status[e] \in {"ok", "none"}}

CollectorWaiting ==
    /\ pool.phase \in {"running", "crashed"}
    /\ pool.next <= Len(pool.futures)
    /\ pool.futures[pool.next] \notin Finished

\* C21: in the worker pool a successful result is in the progress file as
\* soon as its worker has finished: whenever the collecting loop is waiting,
\* and so at any crash at such a point, every instrument whose worker returned
\* a result is in the progress file, in whatever order the workers finish.
C21_FinishedResultsCheckpointed ==
    CollectorWaiting =>
        \A e \in Etfs : pool.status[e] = "ok" => e \in Codes(pool.progress_file)

\* C22: a write interrupted part-way leaves the prior complete content of the
\* file readable: after a crash inside a write of a bucketed entry, of the base
\* history or of the progress checkpoint, a file that was complete before the
\* write still holds what it held.
C22_InterruptedWriteKeepsPrior ==
    (wr.phase = "crashed" /\ wr.prior.state = "complete") =>
        wr.store[wr.site] = wr.prior

\* C23: for every sector of every input table the heat value is
\* 0.7 x popularity percentile + 0.3 x fund-strength percentile rounded to 2
\* decimals and lies in [0, 100]; the fund-strength score is 50 for every
\* sector when the fund-flow column is absent or has no numeric entry.
C23_HeatValueBlend ==
    hm.called =>
        /\ \A i \in SectorRows :
            /\ ~hm.heat_value[i].nan
            /\ hm.heat_value[i].v \in 0..10000
            /\ ~hm.pop_score[i].nan /\ ~hm.fund_score[i].nan
            /\ Abs(120 * hm.heat_value[i].v
                   - 100 * (7 * hm.pop_score[i].v + 3 * hm.fund_score[i].v)) <= 60
        /\ (~hm.table.has_fund \/ \A j \in SectorRows : hm.table.fund[j].nan) =>
                \A i \in SectorRows : hm.fund_score[i] = Num(600)

FlowIsNumber == flow.value.kind \in {"number", "numeric_str"}

\* C24: _normalize_flow_value(v) is v / 1e8 for every v with |v| > 1e6 and v
\* itself for every v with |v| <= 1e6, the value 1e6 included; None, NaN and
\* text that spells no number give NaN; no call raises.
C24_FlowValueNormalized ==
    flow.called =>
        /\ ~flow.out.raised
        /\ ~FlowIsNumber => flow.out.nan
        /\ (FlowIsNumber /\ (flow.value.v > 1000000 \/ flow.value.v < 0 - 1000000)) =>
                (~flow.out.nan /\ flow.out.num = flow.value.v /\ flow.out.den = 100000000)
        /\ (FlowIsNumber /\ flow.value.v <= 1000000 /\ flow.value.v >= 0 - 1000000) =>
                (~flow.out.nan /\ flow.out.num = flow.value.v /\ flow.out.den = 1)

\* The value -1e6, on the boundary, came back unchanged.
C24_Witness ==
    /\ flow.called
    /\ flow.value.kind = "numeric_str"
    /\ flow.value.v = 0 - 1000000
    /\ ~flow.out.raised /\ ~flow.out.nan
    /\ flow.out.num = 0 - 1000000 /\ flow.out.den = 1

\* The analyzer about to start.
Starting(key) == pc.at = "analyze" /\ AnalyzerOrder[pc.i] = key

Completed(key) == key \in DOMAIN analyzer.analysis_result

\* C25: in a run of run_analysis the limit-up analyzer has completed when the
\* sentiment analyzer starts, the liquidity and the intermarket analyzer have
\* completed when the stage classification starts, and no analyzer has run
\* before fetch_data has finished.
C25_ProducersBeforeConsumers ==
    /\ Starting("sentiment") => Completed("limitup")
    /\ Starting("market_stage") => (Completed("liquidity") /\ Completed("intermarket"))
    /\ pc.at \in {"new", "clean", "fetch"} => analyzer.analysis_result = NoDict
    /\ pc.at = "analyze" => Feeds \subseteq DOMAIN analyzer.data

\* The stage classification is about to start on the results it reads.
C25_Witness ==
    /\ Starting("market_stage")
    /\ Completed("liquidity") /\ Completed("intermarket") /\ Completed("sentiment")
    /\ analyzer.analysis_result["limitup"] = "result"

\* The elapsed trading minutes the claim names for minute t of a trading day.
ClaimedElapsed(t) ==
    IF t < 570 THEN 0
    ELSE IF t <= 690 THEN t - 570
    ELSE IF t < 780 THEN 120
    ELSE IF t <= 900 THEN 120 + (t - 780)
    ELSE 240

LiquidityAsClaimed ==
    liq.called =>
        /\ liq.elapsed_minutes \in 0..240
        /\ liq.is_trading_day = "False" => liq.elapsed_minutes = 0
        /\ liq.is_trading_day = "True" => liq.elapsed_minutes = ClaimedElapsed(liq.minute)
        /\ liq.volume_analysis_turnover.estimated
            <=> (liq.run_mode # "POST_MARKET" /\ liq.elapsed_minutes > 0)
        /\ liq.volume_analysis_turnover.estimated =>
            /\ liq.volume_analysis_turnover.num = liq.total_turnover.v * 240
            /\ liq.volume_analysis_turnover.den = liq.elapsed_minutes
        /\ ~liq.volume_analysis_turnover.estimated =>
            /\ liq.volume_analysis_turnover.num = liq.total_turnover.v
            /\ liq.volume_analysis_turnover.den = 1
        /\ liq.run_mode = "POST_MARKET" =>
            /\ liq.total_turnover.source = "index_history"
            /\ liq.volume_analysis_turnover.num = liq.history_turnover
            /\ liq.volume_analysis_turnover.den = 1

\* C26: analyze_market_liquidity scales the turnover by 240 / elapsed exactly
\* when the mode is not POST_MARKET and the elapsed trading minutes are > 0,
\* and in POST_MARKET classifies the index-history turnover as it is; the
\* elapsed minutes are 0 before 9:30 and on a non-trading day, the minutes
\* since 9:30 until 11:30, 120 during the lunch break, 120 + the minutes since
\* 13:00 until 15:00 and 240 afterwards, lie in [0, 240] and do not decrease
\* from one minute of the day to a later one.
C26_LiquidityExtrapolation ==
    /\ []LiquidityAsClaimed
    /\ [][(liq.called /\ liq'.called /\ liq'.is_trading_day = liq.is_trading_day
           /\ liq'.minute >= liq.minute)
            => (liq'.elapsed_minutes >= liq.elapsed_minutes)]_vars

\* A live call at 12:30, in the lunch break, estimating the day from 120
\* minutes of trading on the live turnover.
C26_Witness ==
    /\ liq.called
    /\ liq.run_mode = "MIDDAY_SUMMARY"
    /\ liq.minute = 750
    /\ liq.elapsed_minutes = 120
    /\ liq.total_turnover.source = "all_a_spot"
    /\ liq.volume_analysis_turnover = [num |-> 80 * 240, den |-> 120, estimated |-> TRUE]

\* C27: get_incremental_daily_data never raises to its caller: whatever the
\* persisted base file holds (an empty table persisted by a first fetch
\* included) and whatever the producer does, the call returns a table.
C27_IncrementalNeverRaises ==
    inc.called => ~inc.raised

\* C28: in a run driven by run_analysis the etf_technical key is never
\* written, so analysis_result never holds final_ranking, and the
\* comprehensive_scoring step leaves the analyzer's state as it found it.
C28_ScoringWritesNothing ==
    /\ [](/\ "etf_technical" \notin DOMAIN analyzer.analysis_result
          /\ "final_ranking" \notin DOMAIN analyzer.analysis_result)
    /\ [][(pc.at = "scoring" /\ pc'.at = "conclusion") => (analyzer' = analyzer)]_vars

\* The scoring step has returned in a run whose heat map is not empty.
C28_Witness ==
    /\ pc.at = "conclusion"
    /\ "sector_heat_map" \in DOMAIN analyzer.analysis_result
    /\ analyzer.analysis_result["sector_heat_map"] = "result"
    /\ "final_ranking" \notin DOMAIN analyzer.analysis_result

\* C29: every report built by transform_analyzer_result, as returned and as
\* persisted, has the default 0 in its index and change fields, whatever the
\* intermarket analyzer computed.
C29_IndexAndChangeDefault ==
    [][(srv.phase = "running" /\ srv'.phase = "returned" /\ pc.at # "raised")
        => (/\ srv'.payload.index = PyInt("0")
            /\ srv'.payload.change = PyInt("0")
            /\ JsonLoad(reports'[srv'.date]).index = PyInt("0")
            /\ JsonLoad(reports'[srv'.date]).change = PyInt("0"))]_vars

\* A report built from a run whose liquidity and intermarket analyzers both
\* succeeded: the flows are filled in, the index is the default.
C29_Witness ==
    /\ srv.op = "generate"
    /\ srv.phase = "returned"
    /\ pc.at = "done"
    /\ "intermarket" \in DOMAIN analyzer.analysis_result
    /\ analyzer.analysis_result["intermarket"] = "result"
    /\ "liquidity" \in DOMAIN analyzer.analysis_result
    /\ analyzer.analysis_result["liquidity"] = "result"
    /\ "index" \in DOMAIN srv.payload
    /\ srv.payload.mainFlow = PyStr("-633.24e8")
    /\ srv.payload.index = PyInt("0")
    /\ srv.payload.change = PyInt("0")

\* C30: get_report with the date parameter omitted answers with today's
\* report and today's date when the file of today exists, with 404 NotFound
\* when it does not, and never ends in an unhandled error.
C30_ReportOfTodayByDefault ==
    (ep.called /\ ~ep.given) =>
        /\ ep.status # "unhandled"
        /\ ep.existed => (ep.status = "200" /\ ep.date = ep.today)
        /\ ~ep.existed => ep.status = "404"

====
